---- MODULE Spec2Model ----
(***************************************************************************)
(* A model of the analysis core of tag-images:                             *)
(*   svg_analyzer.py  SVGAnalyzer      (contour-vision category scoring)    *)
(*   ml_model.py      SVGTypingModel   (training rows and prediction)       *)
(*                                                                         *)
(* Strings that the code inspects character by character (category names:  *)
(* .lower() and the substring test `tok in name`) are sequences of one-    *)
(* character strings.  Scores are exact rationals <<n, d>> in lowest terms *)
(* (the code computes them in binary floating point; for the shape counts  *)
(* of this model the comparisons ratio == 1.0 and ratio > 0.5 agree with   *)
(* the exact ones).                                                        *)
(***************************************************************************)
EXTENDS Integers, Sequences, FiniteSets, TLC

VARIABLES
  store,               \* contents of categories.json (the external category store)
  category_keywords,   \* keys of SVGAnalyzer.category_keywords, in insertion order
  typing_steps,        \* SVGTypingModel.typing_steps, in insertion order
  model,               \* SVGTypingModel.model
  last,                \* the most recent operation and its outcome
  disk,                \* the model files on disk: path -> the model saved there
  saved,               \* the arguments of the most recent save_model call
  typed_file,          \* contents of typed_images.json (the persisted results store)
  session_state,       \* st.session_state of the browser session that types
  view,                \* what the last script run of that session rendered
  threads              \* the script runs of concurrent sessions that write the store

\* the state of the analysis core and the state of the typing application
coreVars == <<store, category_keywords, typing_steps, model, disk, saved>>
appVars  == <<typed_file, session_state, view, threads>>

vars == <<store, category_keywords, typing_steps, model, last, disk, saved,
          typed_file, session_state, view, threads>>

-----------------------------------------------------------------------------
(* Bounds *)

\* longest category list in categories.json
MaxCats == 2
\* most contours that survive the noise filter in one image
MaxShapes == 3
\* highest index n of the keys cutout_n / additional_cutout_n in a results mapping
MaxIdx == 3
\* class weights of an output head range over 0..MaxProb
MaxProb == 2
\* most files in one batch of several files handed to prepare_data
MaxFiles == 2
\* most .svg files in the images directory
MaxImages == 2
\* most contours that findContours returns for one image
MaxContours == 2

-----------------------------------------------------------------------------
(* Characters and strings *)

UpperChars ==
  <<"A","B","C","D","E","F","G","H","I","J","K","L","M",
    "N","O","P","Q","R","S","T","U","V","W","X","Y","Z">>
LowerChars ==
  <<"a","b","c","d","e","f","g","h","i","j","k","l","m",
    "n","o","p","q","r","s","t","u","v","w","x","y","z">>

\* str.lower() on one character
LowerChar(c) ==
  IF \E i \in 1..Len(UpperChars) : UpperChars[i] = c
  THEN LowerChars[CHOOSE i \in 1..Len(UpperChars) : UpperChars[i] = c]
  ELSE c

\* mutant: names are kept in the case they are written in
LowerKeepsCase(s) == s

\* str.lower()
Lower(s) == [i \in 1..Len(s) |-> LowerChar(s[i])]

\* the substring test `tok in s`
Contains(tok, s) ==
  \E i \in 1..(Len(s) - Len(tok) + 1) : SubSeq(s, i, i + Len(tok) - 1) = tok

\* the name tokens the scoring rules look for
TokRound    == <<"r","o","u","n","d">>
TokCircle   == <<"c","i","r","c","l","e">>
TokSquare   == <<"s","q","u","a","r","e">>
TokTriangle == <<"t","r","i","a","n","g","l","e">>
TokComplex  == <<"c","o","m","p","l","e","x">>
TokShape    == <<"s","h","a","p","e">>
TokText     == <<"t","e","x","t">>
TokHeart    == <<"h","e","a","r","t">>
TokArrow    == <<"a","r","r","o","w">>

\* category display names as they may stand in categories.json
NameRound       == <<"R","o","u","n","d">>
NameCircles     == <<"c","i","r","c","l","e","s">>
NameSquare      == <<"S","q","u","a","r","e">>
NameTriangle    == <<"t","r","i","a","n","g","l","e">>
NameRoundSquare == <<"r","o","u","n","d"," ","s","q","u","a","r","e">>
NameShapes      == <<"S","H","A","P","E","S">>
NameText        == <<"t","e","x","t">>
NameHeart       == <<"h","e","a","r","t">>
NameArrow       == <<"a","r","r","o","w">>
NameMisc        == <<"m","i","s","c">>

Names ==
  { NameRound, NameCircles, NameSquare, NameTriangle, NameRoundSquare,
    NameShapes, NameText, NameHeart, NameArrow, NameMisc }

-----------------------------------------------------------------------------
(* Exact rationals *)

RECURSIVE GCD(_, _)
GCD(a, b) == IF b = 0 THEN a ELSE GCD(b, a % b)

Rat(n, d) == LET g == GCD(n, d) IN <<n \div g, d \div g>>
RatZero == Rat(0, 1)
RatOne  == Rat(1, 1)
RatLess(a, b) == a[1] * b[2] < b[1] * a[2]
RatMul(a, b)  == Rat(a[1] * b[1], a[2] * b[2])
RatAdd(a, b)  == Rat(a[1] * b[2] + b[1] * a[2], a[2] * b[2])
RatMin(a, b)  == IF RatLess(b, a) THEN b ELSE a

-----------------------------------------------------------------------------
(* Python dicts: sequences of <<key, value>> in insertion order *)

DictKeys(d) == {d[i][1] : i \in 1..Len(d)}

\* d[k] = v : a new key is appended, an existing key keeps its place
DictSet(d, k, v) ==
  IF k \in DictKeys(d)
  THEN [i \in 1..Len(d) |-> IF d[i][1] = k THEN <<k, v>> ELSE d[i]]
  ELSE Append(d, <<k, v>>)

\* the sequences over S of length at most n
RECURSIVE SeqsUpTo(_, _)
SeqsUpTo(S, n) ==
  IF n = 0 THEN {<<>>}
  ELSE SeqsUpTo(S, n - 1)
       \cup {Append(q, x) : q \in {p \in SeqsUpTo(S, n - 1) : Len(p) = n - 1}, x \in S}

-----------------------------------------------------------------------------
(* categories.json and update_categories_from_json *)

CatEntry(n) == [has_name |-> TRUE, name |-> n]
\* a JSON object without the "name" member
NoNameEntry == [has_name |-> FALSE, name |-> <<>>]

FileMissing == [state |-> "missing", cats |-> <<>>]
FileCorrupt == [state |-> "corrupt", cats |-> <<>>]
FileList(cs) == [state |-> "list", cats |-> cs]

\* the loop `for cat in categories` from entry i on; keys is category_keywords so far
RECURSIVE LoadLoop(_, _, _)
LoadLoop(cats, i, keys) ==
  IF i > Len(cats) THEN [raised |-> FALSE, keys |-> keys]
  ELSE IF ~cats[i].has_name THEN [raised |-> TRUE, keys |-> keys]
  ELSE LET name == Lower(cats[i].name)
       IN LoadLoop(cats, i + 1,
                   IF \E j \in 1..Len(keys) : keys[j] = name THEN keys ELSE Append(keys, name))

\* mutant: only FileNotFoundError is caught, a JSONDecodeError escapes
UpdateCatchesOnlyMissingFile(file) ==
  IF file.state = "missing" THEN [raised |-> FALSE, keys |-> <<>>]
  ELSE IF file.state = "corrupt" THEN [raised |-> TRUE, keys |-> <<>>]
  ELSE LoadLoop(file.cats, 1, <<>>)

\* update_categories_from_json: the category_keywords it leaves and whether it raised
UpdateCategoriesFromJson(file) ==
  IF file.state \in {"missing", "corrupt"}
  THEN [raised |-> FALSE, keys |-> <<>>]
  ELSE LoadLoop(file.cats, 1, <<>>)


-----------------------------------------------------------------------------
(* _detect_shapes *)

\* a contour with the measurements OpenCV gives for it; the ratios (circularity,
\* solidity, axis ratio of the fitted ellipse, aspect ratio of the minimum-area
\* rectangle) in hundredths, points = len(contour), vertices = len(approx)
Contour(area, perimeter, circularity, solidity, points, axis, vertices, aspect) ==
  [area |-> area, perimeter |-> perimeter, circularity |-> circularity,
   solidity |-> solidity, points |-> points, fitted_axis_ratio |-> axis,
   vertices |-> vertices, aspect_ratio |-> aspect]

\* image.shape[0] * image.shape[1] * 0.001 for the 800 x 800 raster
MinArea == (800 * 800) \div 1000

NoShapes == [circles |-> 0, rectangles |-> 0, triangles |-> 0, other |-> 0]

\* mutant: the rectangle test made before the triangle test
ClassifyContourRectangleFirst(contour) ==
  LET axis_ratio == IF contour.points >= 5 THEN contour.fitted_axis_ratio ELSE 0
      is_circle  == \/ (contour.circularity > 75 /\ contour.solidity > 85)
                    \/ (axis_ratio > 85 /\ contour.solidity > 90)
  IN IF contour.perimeter = 0 THEN "none"
     ELSE IF is_circle THEN "circles"
     ELSE IF \/ (contour.vertices = 4 /\ contour.aspect_ratio > 70)
             \/ (contour.vertices <= 6 /\ contour.aspect_ratio > 80)
       THEN "rectangles"
     ELSE IF contour.vertices = 3 \/ (contour.vertices = 4 /\ contour.aspect_ratio < 60)
       THEN "triangles"
     ELSE "other"

\* lines 88-138: the bucket one contour of the filtered list is counted in
ClassifyContour(contour) ==
  LET axis_ratio == IF contour.points >= 5 THEN contour.fitted_axis_ratio ELSE 0
      is_circle  == \/ (contour.circularity > 75 /\ contour.solidity > 85)
                    \/ (axis_ratio > 85 /\ contour.solidity > 90)
  IN IF contour.perimeter = 0 THEN "none"
     ELSE IF is_circle THEN "circles"
     ELSE IF contour.vertices = 3 \/ (contour.vertices = 4 /\ contour.aspect_ratio < 60)
       THEN "triangles"
     ELSE IF \/ (contour.vertices = 4 /\ contour.aspect_ratio > 70)
             \/ (contour.vertices <= 6 /\ contour.aspect_ratio > 80)
       THEN "rectangles"
     ELSE "other"

\* the loop of lines 87-138 over the filtered contours, from contour i on
RECURSIVE CountShapes(_, _, _)
CountShapes(contours, i, shapes) ==
  IF i > Len(contours) THEN shapes
  ELSE LET bucket == ClassifyContour(contours[i])
       IN CountShapes(contours, i + 1,
                      IF bucket = "none" THEN shapes
                      ELSE [shapes EXCEPT ![bucket] = @ + 1])

\* _detect_shapes, from the contours that findContours returns
DetectShapes(contours) ==
  CountShapes(SelectSeq(contours, LAMBDA cnt : cnt.area > MinArea), 1, NoShapes)

\* one contour with every combination of measurements on either side of the
\* thresholds
ContourCases ==
  { Contour(area, perimeter, circularity, solidity, pa[1], pa[2], vertices, aspect) :
      area \in {MinArea, MinArea + 1}, perimeter \in {0, 100},
      circularity \in {75, 76}, solidity \in {85, 90, 91},
      pa \in {<<4, 86>>, <<5, 85>>, <<5, 86>>},
      vertices \in {3, 4, 6, 7}, aspect \in {59, 60, 70, 71, 80, 81} }

\* a disc, a notched square, a triangle, a star and a speck of noise
SampleContours ==
  { Contour(40000, 710, 99, 100, 60, 99, 8, 100),
    Contour(30000, 800, 59, 80, 4, 0, 4, 100),
    Contour(20000, 683, 54, 100, 3, 0, 3, 70),
    Contour(20000, 1200, 17, 50, 10, 90, 10, 95),
    Contour(100, 40, 78, 100, 4, 0, 4, 100) }

\* the contours of an image: samples followed by one contour of ContourCases
ContourLists ==
  { Append(base, c) : base \in SeqsUpTo(SampleContours, MaxContours - 1), c \in ContourCases }

-----------------------------------------------------------------------------
(* analyze_svg *)

\* an input whose rasterization (_svg_to_image) raises
RenderFails == [raster |-> "raise", detect |-> "none",
                shapes |-> [circles |-> 0, rectangles |-> 0, triangles |-> 0, other |-> 0]]
\* an input that renders and whose contour analysis (_detect_shapes) raises
DetectFails == [raster |-> "ok", detect |-> "raise",
                shapes |-> [circles |-> 0, rectangles |-> 0, triangles |-> 0, other |-> 0]]
\* an input that renders, with the bucket counts _detect_shapes returns for it
Detected(sh) == [raster |-> "ok", detect |-> "ok", shapes |-> sh]

TotalShapes(sh) == sh.circles + sh.rectangles + sh.triangles + sh.other

ShapeCounts ==
  { sh \in [circles : 0..MaxShapes, rectangles : 0..MaxShapes,
            triangles : 0..MaxShapes, other : 0..MaxShapes] :
      TotalShapes(sh) <= MaxShapes }

\* images of four shapes, more than the heart and arrow rules admit
CrowdedShapes ==
  { [circles |-> 3, rectangles |-> 0, triangles |-> 0, other |-> 1],
    [circles |-> 1, rectangles |-> 1, triangles |-> 1, other |-> 1],
    [circles |-> 0, rectangles |-> 0, triangles |-> 0, other |-> 4] }

SvgInputs ==
  {RenderFails, DetectFails} \cup {Detected(sh) : sh \in ShapeCounts \cup CrowdedShapes}

\* mutant: the majority test written ratio >= 0.5
RatioScoreMajorityAtHalf(matching, total) ==
  IF matching > 0
  THEN LET ratio == Rat(matching, total)
       IN IF ratio = RatOne THEN RatOne
          ELSE IF ~RatLess(ratio, Rat(1, 2)) THEN Rat(9, 10)
          ELSE RatMul(Rat(7, 10), ratio)
  ELSE RatZero

\* the three identical ratio blocks (lines 159-167, 170-177, 180-187)
RatioScore(matching, total) ==
  IF matching > 0
  THEN LET ratio == Rat(matching, total)
       IN IF ratio = RatOne THEN RatOne
          ELSE IF RatLess(Rat(1, 2), ratio) THEN Rat(9, 10)
          ELSE RatMul(Rat(7, 10), ratio)
  ELSE RatZero

\* sum(1 for count in shapes.values() if count > 0)
UniqueShapes(sh) ==
  (IF sh.circles > 0 THEN 1 ELSE 0) + (IF sh.rectangles > 0 THEN 1 ELSE 0)
  + (IF sh.triangles > 0 THEN 1 ELSE 0) + (IF sh.other > 0 THEN 1 ELSE 0)

\* mutant: the variety score given to images of a single bucket as well
VarietyScoreWithoutGuard(sh) ==
  LET variety_score == RatMin(RatOne, Rat(UniqueShapes(sh), 3))
      count_score   == RatMin(RatOne, Rat(TotalShapes(sh), 3))
  IN RatMul(RatAdd(variety_score, count_score), Rat(1, 2))

\* the complex/shape block
VarietyScore(sh) ==
  IF UniqueShapes(sh) > 1
  THEN LET variety_score == RatMin(RatOne, Rat(UniqueShapes(sh), 3))
           count_score   == RatMin(RatOne, Rat(TotalShapes(sh), 3))
       IN RatMul(RatAdd(variety_score, count_score), Rat(1, 2))
  ELSE RatZero

\* mutant: the square rule tested before the round/circle rule
CategoryScoreSquareFirst(category_name, sh) ==
  IF Contains(TokSquare, category_name)
    THEN RatioScore(sh.rectangles, TotalShapes(sh))
  ELSE IF Contains(TokRound, category_name) \/ Contains(TokCircle, category_name)
    THEN RatioScore(sh.circles, TotalShapes(sh))
  ELSE IF Contains(TokTriangle, category_name)
    THEN RatioScore(sh.triangles, TotalShapes(sh))
  ELSE IF Contains(TokComplex, category_name) \/ Contains(TokShape, category_name)
    THEN VarietyScore(sh)
  ELSE IF Contains(TokText, category_name)
    THEN Rat(1, 10)
  ELSE IF Contains(TokHeart, category_name)
    THEN IF sh.other > 0 /\ TotalShapes(sh) <= 2 THEN Rat(6, 10) ELSE RatZero
  ELSE IF Contains(TokArrow, category_name)
    THEN IF sh.other > 0 /\ TotalShapes(sh) <= 3 THEN Rat(6, 10) ELSE RatZero
  ELSE RatZero

\* mutant: the shape-count limits of the heart and the arrow rule exchanged
CategoryScoreLimitsExchanged(category_name, sh) ==
  IF Contains(TokRound, category_name) \/ Contains(TokCircle, category_name)
    THEN RatioScore(sh.circles, TotalShapes(sh))
  ELSE IF Contains(TokSquare, category_name)
    THEN RatioScore(sh.rectangles, TotalShapes(sh))
  ELSE IF Contains(TokTriangle, category_name)
    THEN RatioScore(sh.triangles, TotalShapes(sh))
  ELSE IF Contains(TokComplex, category_name) \/ Contains(TokShape, category_name)
    THEN VarietyScore(sh)
  ELSE IF Contains(TokText, category_name)
    THEN Rat(1, 10)
  ELSE IF Contains(TokHeart, category_name)
    THEN IF sh.other > 0 /\ TotalShapes(sh) <= 3 THEN Rat(6, 10) ELSE RatZero
  ELSE IF Contains(TokArrow, category_name)
    THEN IF sh.other > 0 /\ TotalShapes(sh) <= 2 THEN Rat(6, 10) ELSE RatZero
  ELSE RatZero

\* the rule chain of the loop body, for the (lower-cased) name; total_shapes > 0
CategoryScore(category_name, sh) ==
  IF Contains(TokRound, category_name) \/ Contains(TokCircle, category_name)
    THEN RatioScore(sh.circles, TotalShapes(sh))
  ELSE IF Contains(TokSquare, category_name)
    THEN RatioScore(sh.rectangles, TotalShapes(sh))
  ELSE IF Contains(TokTriangle, category_name)
    THEN RatioScore(sh.triangles, TotalShapes(sh))
  ELSE IF Contains(TokComplex, category_name) \/ Contains(TokShape, category_name)
    THEN VarietyScore(sh)
  ELSE IF Contains(TokText, category_name)
    THEN Rat(1, 10)
  ELSE IF Contains(TokHeart, category_name)
    THEN IF sh.other > 0 /\ TotalShapes(sh) <= 2 THEN Rat(6, 10) ELSE RatZero
  ELSE IF Contains(TokArrow, category_name)
    THEN IF sh.other > 0 /\ TotalShapes(sh) <= 3 THEN Rat(6, 10) ELSE RatZero
  ELSE RatZero

\* {name.lower(): 0.0 for name in self.category_keywords.keys()}, from key i on
RECURSIVE ZeroScores(_, _, _)
ZeroScores(keys, i, scores) ==
  IF i > Len(keys) THEN scores
  ELSE ZeroScores(keys, i + 1, DictSet(scores, Lower(keys[i]), RatZero))

\* for category_name in self.category_keywords.keys(): ... scores[category_name] = score
RECURSIVE ScoreLoop(_, _, _, _)
ScoreLoop(keys, i, sh, scores) ==
  IF i > Len(keys) THEN scores
  ELSE LET category_name == Lower(keys[i])
       IN ScoreLoop(keys, i + 1, sh,
                    DictSet(scores, category_name, CategoryScore(category_name, sh)))

\* mutant: no early return for total_shapes == 0
AnalyzeBodyNoEarlyReturn(inp, keys) ==
  IF inp.raster = "raise" \/ inp.detect = "raise"
  THEN [exc |-> TRUE, value |-> <<>>]
  ELSE [exc |-> FALSE, value |-> ScoreLoop(keys, 1, inp.shapes, <<>>)]

\* the body of the try block of analyze_svg: the exception it raises, or its value
AnalyzeBody(inp, keys) ==
  IF inp.raster = "raise" \/ inp.detect = "raise"
  THEN [exc |-> TRUE, value |-> <<>>]
  ELSE IF TotalShapes(inp.shapes) = 0
  THEN [exc |-> FALSE, value |-> ZeroScores(keys, 1, <<>>)]
  ELSE [exc |-> FALSE, value |-> ScoreLoop(keys, 1, inp.shapes, <<>>)]

\* mutant: no try/except around the body
AnalyzeSvgNoCatch(inp, keys) ==
  LET r == AnalyzeBody(inp, keys)
  IN [raised |-> r.exc, scores |-> r.value]

\* analyze_svg: try: ... except Exception: return {}
AnalyzeSvg(inp, keys) ==
  LET r == AnalyzeBody(inp, keys)
  IN IF r.exc THEN [raised |-> FALSE, scores |-> <<>>]
     ELSE [raised |-> FALSE, scores |-> r.value]

\* mutant: a later item of equal score replaces the best one
RECURSIVE MaxItemLastWins(_, _, _)
MaxItemLastWins(items, i, best) ==
  IF i > Len(items) THEN best
  ELSE MaxItemLastWins(items, i + 1,
                       IF ~RatLess(items[i][2], best[2]) THEN items[i] ELSE best)

\* max(scores.items(), key=lambda x: x[1]) over items i.., best so far
RECURSIVE MaxItem(_, _, _)
MaxItem(items, i, best) ==
  IF i > Len(items) THEN best
  ELSE MaxItem(items, i + 1, IF RatLess(best[2], items[i][2]) THEN items[i] ELSE best)

NoCategory == <<>>

\* suggest_category
SuggestCategory(inp, keys) ==
  LET a == AnalyzeSvg(inp, keys)
  IN IF a.raised THEN [raised |-> TRUE, category |-> NoCategory, confidence |-> RatZero]
     ELSE IF Len(a.scores) = 0
     THEN [raised |-> FALSE, category |-> NoCategory, confidence |-> RatZero]
     ELSE LET best == MaxItem(a.scores, 2, a.scores[1])
          IN [raised |-> FALSE, category |-> best[1], confidence |-> best[2]]


-----------------------------------------------------------------------------
(* SVGTypingModel: the labeling-step configuration *)

Opt(v, o) == [value |-> v, order |-> o]
Step(i, o, opts) == [id |-> i, order |-> o, options |-> opts]

\* sorted(xs, key=lambda x: x.order): a stable insertion sort
RECURSIVE InsertByOrder(_, _)
InsertByOrder(x, sorted) ==
  IF Len(sorted) = 0 THEN <<x>>
  ELSE IF x.order < sorted[Len(sorted)].order
       THEN Append(InsertByOrder(x, SubSeq(sorted, 1, Len(sorted) - 1)), sorted[Len(sorted)])
       ELSE Append(sorted, x)

RECURSIVE SortByOrder(_)
SortByOrder(xs) ==
  IF Len(xs) = 0 THEN <<>>
  ELSE InsertByOrder(xs[Len(xs)], SortByOrder(SubSeq(xs, 1, Len(xs) - 1)))

\* steps and options listed in their order
StepsPlain ==
  << Step("basic_shape", 0, <<Opt("Rectangle", 0), Opt("Circle", 1)>>),
     Step("cutout", 1, <<Opt("Rectangle", 0), Opt("Circle", 1)>>),
     Step("additional_cutout", 2, <<Opt("Ja", 0), Opt("Nee", 1)>>) >>

\* steps and options listed out of their order (after a reorder in the configuration)
StepsShuffled ==
  << Step("additional_cutout", 2, <<Opt("Nee", 1), Opt("Ja", 0)>>),
     Step("basic_shape", 0, <<Opt("Circle", 1), Opt("Text", 2), Opt("Rectangle", 0)>>),
     Step("cutout", 1, <<Opt("Circle", 1), Opt("Rectangle", 0)>>) >>

\* the flag step ordered before the sub-item step
StepsFlagFirst ==
  << Step("basic_shape", 0, <<Opt("Rectangle", 0), Opt("Circle", 1)>>),
     Step("additional_cutout", 1, <<Opt("Ja", 0), Opt("Nee", 1)>>),
     Step("cutout", 2, <<Opt("Rectangle", 0), Opt("Circle", 1)>>) >>

StepConfigs == {StepsPlain, StepsShuffled, StepsFlagFirst}

\* mutant: the options taken in list order, not sorted by order
OptionValuesUnsorted(step) == [i \in 1..Len(step.options) |-> step.options[i].value]

\* [opt['value'] for opt in sorted(step.options, key=lambda x: x['order'])]
OptionValues(step) ==
  LET sorted == SortByOrder(step.options)
  IN [i \in 1..Len(sorted) |-> sorted[i].value]

\* list.index(v): the 1-based place of the first v, 0 where Python raises ValueError
IndexOf(xs, v) ==
  IF \E i \in 1..Len(xs) : xs[i] = v
  THEN CHOOSE i \in 1..Len(xs) : xs[i] = v /\ \A j \in 1..(i - 1) : xs[j] # v
  ELSE 0

\* f"cutout_{cutout_index}" if cutout_index > 1 else "cutout"
CutoutKey(cutout_index) ==
  IF cutout_index > 1 THEN "cutout_" \o ToString(cutout_index) ELSE "cutout"

\* f"additional_cutout_{cutout_index}"
AdditionalKey(cutout_index) == "additional_cutout_" \o ToString(cutout_index)

\* dict.get(key, default)
Get(d, key, default) == IF key \in DOMAIN d THEN d[key] ELSE default

-----------------------------------------------------------------------------
(* prepare_data *)

\* mutant: every row reads the key "cutout"
CurrentValueIgnoresIndex(step, results, cutout_index) ==
  IF step.id = "cutout"
    THEN Get(results, CutoutKey(1), step.options[1].value)
  ELSE IF step.id = "additional_cutout"
    THEN Get(results, AdditionalKey(cutout_index), "Nee")
  ELSE Get(results, step.id, step.options[1].value)

\* mutant: an unanswered step defaults to the option of lowest order
CurrentValueDefaultsByOrder(step, results, cutout_index) ==
  IF step.id = "cutout"
    THEN Get(results, CutoutKey(cutout_index), SortByOrder(step.options)[1].value)
  ELSE IF step.id = "additional_cutout"
    THEN Get(results, AdditionalKey(cutout_index), "Nee")
  ELSE Get(results, step.id, SortByOrder(step.options)[1].value)

\* lines 149-159: the answer of a step for sub-item cutout_index
CurrentValue(step, results, cutout_index) ==
  IF step.id = "cutout"
    THEN Get(results, CutoutKey(cutout_index), step.options[1].value)
  ELSE IF step.id = "additional_cutout"
    THEN Get(results, AdditionalKey(cutout_index), "Nee")
  ELSE Get(results, step.id, step.options[1].value)

\* lines 148-164: the labels of one row, from step s on; exc when .index raises
RECURSIVE LabelSteps(_, _, _, _, _)
LabelSteps(sorted_steps, s, results, cutout_index, Y) ==
  IF s > Len(sorted_steps) THEN [exc |-> FALSE, Y |-> Y]
  ELSE LET step == sorted_steps[s]
           label == IndexOf(OptionValues(step), CurrentValue(step, results, cutout_index))
       IN IF label = 0 THEN [exc |-> TRUE, Y |-> Y]
          ELSE LabelSteps(sorted_steps, s + 1, results, cutout_index,
                          [Y EXCEPT ![s] = Append(@, label - 1)])

\* mutant: the loop goes on while the answer key of the next sub-item exists
RECURSIVE RowLoopFollowsCutoutKeys(_, _, _, _, _)
RowLoopFollowsCutoutKeys(file, steps, cutout_index, X, Y) ==
  LET X1 == Append(X, file.filename)
      r  == LabelSteps(SortByOrder(steps), 1, file.results, cutout_index, Y)
  IN IF r.exc THEN [exc |-> TRUE, X |-> X1, Y |-> r.Y]
     ELSE IF CutoutKey(cutout_index + 1) \in DOMAIN file.results
     THEN RowLoopFollowsCutoutKeys(file, steps, cutout_index + 1, X1, r.Y)
     ELSE [exc |-> FALSE, X |-> X1, Y |-> r.Y]

\* lines 143-171: the while loop, from sub-item cutout_index on
RECURSIVE RowLoop(_, _, _, _, _)
RowLoop(file, steps, cutout_index, X, Y) ==
  LET X1 == Append(X, file.filename)
      r  == LabelSteps(SortByOrder(steps), 1, file.results, cutout_index, Y)
  IN IF r.exc THEN [exc |-> TRUE, X |-> X1, Y |-> r.Y]
     ELSE IF AdditionalKey(cutout_index) \in DOMAIN file.results
             /\ file.results[AdditionalKey(cutout_index)] = "Ja"
     THEN RowLoop(file, steps, cutout_index + 1, X1, r.Y)
     ELSE [exc |-> FALSE, X |-> X1, Y |-> r.Y]

\* lines 135-175: the body of the for loop for one file
ProcessFile(file, steps, acc) ==
  IF ~file.readable
  THEN [X |-> acc.X, Y |-> acc.Y, reported |-> Append(acc.reported, file.filename)]
  ELSE LET r == RowLoop(file, steps, 1, acc.X, acc.Y)
       IN [X |-> r.X, Y |-> r.Y,
           reported |-> IF r.exc THEN Append(acc.reported, file.filename) ELSE acc.reported]

RECURSIVE FileLoop(_, _, _, _)
FileLoop(files, i, steps, acc) ==
  IF i > Len(files) THEN acc
  ELSE FileLoop(files, i + 1, steps, ProcessFile(files[i], steps, acc))

\* prepare_data: X (one image per row, named by its file), Y (one label list per
\* step position) and the files reported as failed
PrepareData(files, steps) ==
  FileLoop(files, 1, steps,
           [X |-> <<>>, Y |-> [i \in 1..Len(steps) |-> <<>>], reported |-> <<>>])

-----------------------------------------------------------------------------
(* create_model and predict *)

NoModel == [loaded |-> FALSE, heads |-> <<>>]

\* create_model: one softmax head per step in step order, sized len(step.options)
CreateModel(steps) ==
  LET sorted_steps == SortByOrder(steps)
  IN [loaded |-> TRUE,
      heads  |-> [i \in 1..Len(sorted_steps) |-> Len(sorted_steps[i].options)]]

\* np.argmax: the zero-based index of the first largest entry
ArgMax(probs) ==
  (CHOOSE i \in 1..Len(probs) :
      /\ \A j \in 1..Len(probs) : probs[j] <= probs[i]
      /\ \A j \in 1..(i - 1) : probs[j] < probs[i]) - 1

\* lines 253-279: the loop over the steps, from step s on; exc on an IndexError
RECURSIVE PredictLoop(_, _, _, _, _)
PredictLoop(sorted_steps, s, predictions, cutout_index, results) ==
  IF s > Len(sorted_steps) THEN [exc |-> FALSE, results |-> results]
  ELSE IF s > Len(predictions) THEN [exc |-> TRUE, results |-> results]
  ELSE
    LET step          == sorted_steps[s]
        pred_idx      == ArgMax(predictions[s])
        option_values == OptionValues(step)
    IN IF pred_idx + 1 > Len(option_values) THEN [exc |-> TRUE, results |-> results]
       ELSE
         LET selected_value == option_values[pred_idx + 1]
         IN IF step.id = "cutout"
            THEN PredictLoop(sorted_steps, s + 1, predictions, cutout_index,
                             (CutoutKey(cutout_index) :> selected_value) @@ results)
            ELSE IF step.id = "additional_cutout"
            THEN PredictLoop(sorted_steps, s + 1, predictions,
                             IF selected_value = "Ja" THEN cutout_index + 1 ELSE cutout_index,
                             (AdditionalKey(cutout_index) :> selected_value) @@ results)
            ELSE PredictLoop(sorted_steps, s + 1, predictions, cutout_index,
                             (step.id :> selected_value) @@ results)

EmptyDict == [k \in {} |-> ""]

\* mutant: the test for a missing model made inside the try block
PredictChecksModelInsideTry(m, steps, inp) ==
  IF ~m.loaded THEN [raised |-> FALSE, results |-> EmptyDict]
  ELSE IF ~inp.renders THEN [raised |-> FALSE, results |-> EmptyDict]
  ELSE LET r == PredictLoop(SortByOrder(steps), 1, inp.predictions, 1, EmptyDict)
       IN [raised |-> FALSE, results |-> IF r.exc THEN EmptyDict ELSE r.results]

\* predict: raised is the ValueError of line 232; any other exception gives {}
Predict(m, steps, inp) ==
  IF ~m.loaded THEN [raised |-> TRUE, results |-> EmptyDict]
  ELSE IF ~inp.renders THEN [raised |-> FALSE, results |-> EmptyDict]
  ELSE LET r == PredictLoop(SortByOrder(steps), 1, inp.predictions, 1, EmptyDict)
       IN [raised |-> FALSE, results |-> IF r.exc THEN EmptyDict ELSE r.results]

\* what self.model.predict can return for a model with these heads
RECURSIVE HeadOutputs(_, _)
HeadOutputs(heads, i) ==
  IF i > Len(heads) THEN {<<>>}
  ELSE { <<p>> \o rest : p \in [1..heads[i] -> 0..MaxProb], rest \in HeadOutputs(heads, i + 1) }

PredictInputs(m) ==
  {[renders |-> FALSE, predictions |-> <<>>]}
  \cup {[renders |-> TRUE, predictions |-> ps] : ps \in HeadOutputs(m.heads, 1)}

-----------------------------------------------------------------------------
(* save_model and load_model *)

\* file paths, character by character
PathBare  == <<"m">>
PathH5    == <<"m", ".", "h", "5">>
PathKeras == <<"m", ".", "k", "e", "r", "a", "s">>
ModelPaths == {PathBare, PathH5, PathKeras}

DotKeras == <<".", "k", "e", "r", "a", "s">>

\* os.path.splitext(p)[0]: p up to the last dot of its last component, when that
\* dot follows a character of the component that is not a dot
SplitextRoot(p) ==
  LET slashes == {i \in 1..Len(p) : p[i] = "/"}
      start   == IF slashes = {} THEN 1
                 ELSE (CHOOSE i \in slashes : \A j \in slashes : j <= i) + 1
      dots    == {i \in start..Len(p) : p[i] = "." /\ \E j \in start..(i - 1) : p[j] # "."}
  IN IF dots = {} THEN p
     ELSE SubSeq(p, 1, (CHOOSE i \in dots : \A j \in dots : j <= i) - 1)

NoFiles == [p \in {} |-> NoModel]
NoSave  == [called |-> FALSE, path |-> <<>>, model |-> NoModel]

\* save_model: the files on disk after the call
SaveModel(m, files, filepath) ==
  IF m.loaded
  THEN ((SplitextRoot(filepath) \o DotKeras) :> m) @@ files
  ELSE files

\* load_model: tf.keras.models.load_model raises when no file stands at filepath,
\* and self.model keeps its value
LoadModel(m, files, filepath) ==
  IF filepath \in DOMAIN files
  THEN [raised |-> FALSE, model |-> files[filepath]]
  ELSE [raised |-> TRUE, model |-> m]

-----------------------------------------------------------------------------
(* Training examples *)

CutoutKeys == {CutoutKey(i) : i \in 1..MaxIdx}
FlagKeys   == {AdditionalKey(i) : i \in 1..MaxIdx}
Absent     == "<absent>"

\* the mappings over keys that answer each key from answers or leave it out
AnswerMaps(keys, answers) ==
  { [k \in {k \in keys : f[k] # Absent} |-> f[k]] : f \in [keys -> answers \cup {Absent}] }

\* "Hexagon" and "Misschien" are answers that are no option of any configuration
ResultMaps ==
  { b @@ c @@ f :
      b \in AnswerMaps({"basic_shape"}, {"Circle", "Hexagon"}),
      c \in AnswerMaps(CutoutKeys, {"Circle", "Hexagon"}),
      f \in AnswerMaps(FlagKeys, {"Ja", "Nee", "Misschien"}) }

Example(name, ok, res) == [filename |-> name, readable |-> ok, results |-> res]

Examples ==
  {Example("a.svg", TRUE, r) : r \in ResultMaps}
  \cup {Example("a.svg", FALSE, r) : r \in {q \in ResultMaps : DOMAIN q \subseteq {"basic_shape"}}}

\* files of a batch of several: two that are typed with options only (two rows,
\* one row), one that cannot be read, one whose sub-item answer is no option, and
\* one whose second sub-item answer is no option
PoolExamples ==
  { Example("b.svg", TRUE, [basic_shape |-> "Circle", additional_cutout_1 |-> "Ja",
                            cutout_2 |-> "Circle"]),
    Example("c.svg", TRUE, [basic_shape |-> "Circle", cutout |-> "Circle"]),
    Example("d.svg", FALSE, [basic_shape |-> "Circle"]),
    Example("e.svg", TRUE, [cutout |-> "Hexagon"]),
    Example("f.svg", TRUE, [additional_cutout_1 |-> "Ja", cutout_2 |-> "Hexagon"]) }

\* typed_files is a dict keyed by file name: the files of a batch differ in name
PoolBatches ==
  { b \in SeqsUpTo(PoolExamples, MaxFiles) :
      /\ Len(b) >= 2
      /\ \A i, j \in 1..Len(b) : i # j => b[i].filename # b[j].filename }

\* typed_files: the batches handed to prepare_data
Batches == {<<>>} \cup {<<e>> : e \in Examples} \cup PoolBatches

-----------------------------------------------------------------------------
(* Operations *)

\* the external collaborator rewrites categories.json
StoreEntries == {CatEntry(NameRound), CatEntry(NameSquare), NoNameEntry}

StoreFiles ==
  {FileMissing, FileCorrupt} \cup {FileList(cs) : cs \in SeqsUpTo(StoreEntries, MaxCats)}

StoreWrite ==
  /\ last.op = "idle"
  /\ \E f \in StoreFiles : store' = f
  /\ last' = [op |-> "write"]
  /\ UNCHANGED <<category_keywords, typing_steps, model, disk, saved, appVars>>

\* a caller invokes update_categories_from_json()
UpdateCategories ==
  /\ last.op = "idle"
  /\ LET r == UpdateCategoriesFromJson(store)
     IN /\ category_keywords' = r.keys
        /\ last' = [op |-> "update", raised |-> r.raised]
  /\ UNCHANGED <<store, typing_steps, model, disk, saved, appVars>>

AnalyzeCall ==
  /\ last.op = "idle"
  /\ \E inp \in SvgInputs :
       LET r == AnalyzeSvg(inp, category_keywords)
       IN last' = [op |-> "analyze", input |-> inp, raised |-> r.raised, scores |-> r.scores]
  /\ UNCHANGED <<store, category_keywords, typing_steps, model, disk, saved, appVars>>

SuggestCall ==
  /\ last.op = "idle"
  /\ \E inp \in SvgInputs :
       LET r == SuggestCategory(inp, category_keywords)
       IN last' = [op |-> "suggest", input |-> inp, raised |-> r.raised,
                   category |-> r.category, confidence |-> r.confidence]
  /\ UNCHANGED <<store, category_keywords, typing_steps, model, disk, saved, appVars>>

\* _detect_shapes on the raster of an image
DetectCall ==
  /\ last.op = "idle"
  /\ \E contours \in ContourLists :
       last' = [op |-> "detect", contours |-> contours, shapes |-> DetectShapes(contours)]
  /\ UNCHANGED <<store, category_keywords, typing_steps, model, disk, saved, appVars>>

\* train() builds the model when there is none (line 185)
TrainCall ==
  /\ last.op = "idle"
  /\ model' = IF model.loaded THEN model ELSE CreateModel(typing_steps)
  /\ last' = [op |-> "train"]
  /\ UNCHANGED <<store, category_keywords, typing_steps, disk, saved, appVars>>

PrepareDataCall ==
  /\ last.op = "idle"
  /\ \E files \in Batches :
       LET r == PrepareData(files, typing_steps)
       IN last' = [op |-> "prepare_data", files |-> files,
                   X |-> r.X, Y |-> r.Y, reported |-> r.reported]
  /\ UNCHANGED <<store, category_keywords, typing_steps, model, disk, saved, appVars>>

PredictCall ==
  /\ last.op = "idle"
  /\ \E inp \in PredictInputs(model) :
       LET r == Predict(model, typing_steps, inp)
       IN last' = [op |-> "predict", input |-> inp, raised |-> r.raised, results |-> r.results]
  /\ UNCHANGED <<store, category_keywords, typing_steps, model, disk, saved, appVars>>

SaveModelCall ==
  /\ last.op = "idle"
  /\ \E filepath \in ModelPaths :
       /\ disk' = SaveModel(model, disk, filepath)
       /\ saved' = [called |-> TRUE, path |-> filepath, model |-> model]
       /\ last' = [op |-> "save", path |-> filepath]
  /\ UNCHANGED <<store, category_keywords, typing_steps, model, appVars>>

LoadModelCall ==
  /\ last.op = "idle"
  /\ \E filepath \in ModelPaths :
       LET r == LoadModel(model, disk, filepath)
       IN /\ model' = r.model
          /\ last' = [op |-> "load", path |-> filepath, raised |-> r.raised]
  /\ UNCHANGED <<store, category_keywords, typing_steps, disk, saved, appVars>>

\* a new process constructs SVGTypingModel(typing_steps): self.model = None
Construct ==
  /\ last.op = "idle"
  /\ model' = NoModel
  /\ last' = [op |-> "construct"]
  /\ UNCHANGED <<store, category_keywords, typing_steps, disk, saved, appVars>>

\* the caller takes the outcome of the operation and is free to start the next one
\* (every call of the core is synchronous)
TakeResult ==
  /\ last.op # "idle"
  /\ last' = [op |-> "idle"]
  /\ UNCHANGED <<store, category_keywords, typing_steps, model, disk, saved, appVars>>

-----------------------------------------------------------------------------
(* app.py: the persisted results store *)

\* the option lists (of the ten basic shapes and the ten cutout shapes, the first)
BASIC_SHAPES  == <<"Rectangle", "Circle">>
CUTOUT_SHAPES == <<"Rectangle">>
CUTOUT_COUNTS ==
  << [label |-> "No cutouts", value |-> 0],
     [label |-> "1 cutout", value |-> 1],
     [label |-> "2 cutouts", value |-> 2],
     [label |-> "3 cutouts", value |-> 3],
     [label |-> "Multiple/complex cutouts", value |-> -1] >>

\* os.listdir(DEFAULT_IMAGES_DIR), the names that end in .svg
ImageFiles == [i \in 1..MaxImages |-> ToString(i) \o ".svg"]

NoResults == [f \in {} |-> EmptyDict]

\* typed_images.json: missing, or a JSON object
TypedMissing == [state |-> "missing", data |-> NoResults]
TypedJson(d) == [state |-> "json", data |-> d]

\* load_typing_results
LoadTypingResults(file) == IF file.state = "json" THEN file.data ELSE NoResults

\* datetime.datetime.now().isoformat()
Now == "<now>"

\* d[k] = v on a mapping, and del d[k]
SetKey(d, k, v) == (k :> v) @@ d
DelKey(d, k) == [x \in (DOMAIN d) \ {k} |-> d[x]]

\* lines 186-190 of save_typing_result: the file written from the mapping `data`
\* that was loaded at line 185
WriteTypingResult(data, filename, results) ==
  TypedJson(SetKey(data, filename, SetKey(results, "typed_date", Now)))

\* save_typing_result, when nothing else touches the file meanwhile
SaveTypingResult(file, filename, results) ==
  WriteTypingResult(LoadTypingResults(file), filename, results)

\* lines 633-636 of the Delete button: the file written from the mapping `typed`
\* that was loaded at line 483
WriteWithout(typed, filename) == TypedJson(DelKey(typed, filename))

\* get_untyped_files
GetUntypedFiles(file) ==
  SelectSeq(ImageFiles, LAMBDA f : f \notin DOMAIN LoadTypingResults(file))

-----------------------------------------------------------------------------
(* app.py: show_typing_interface, one browser session *)

NoSession == [k \in {} |-> 0]

\* what a script run leaves on the page: kind is "closed" before the first run,
\* "no_files" after the return of line 214, "step" when the run reached the option
\* buttons of the current step, and the name of the exception when the run raised
\* after the Previous and Next buttons were drawn
View(kind, prev, next) == [kind |-> kind, prev_enabled |-> prev, next_enabled |-> next]
NoView == View("closed", FALSE, FALSE)

\* lines 217-222
InitSessionState(ss) ==
  LET s1 == IF "current_file_index" \in DOMAIN ss THEN ss
            ELSE SetKey(ss, "current_file_index", 0)
      s2 == IF "current_results" \in DOMAIN s1 THEN s1
            ELSE SetKey(s1, "current_results", EmptyDict)
  IN IF "current_step" \in DOMAIN s2 THEN s2 ELSE SetKey(s2, "current_step", "basic_shape")

\* getattr(st.session_state, 'current_cutout', 0)
CurrentCutout(ss) == IF "current_cutout" \in DOMAIN ss THEN ss.current_cutout ELSE 0

\* a script run in which no button is pressed: lines 204-387
ShowTypingInterface(ss, file) ==
  LET files == GetUntypedFiles(file)
  IN IF Len(files) = 0
     THEN [session_state |-> ss, view |-> View("no_files", FALSE, FALSE)]
     ELSE
       LET s1   == InitSessionState(ss)
           prev == s1.current_file_index # 0
           next == s1.current_file_index # Len(files) - 1
       IN [session_state |-> s1,
           view |->
             IF s1.current_file_index >= Len(files)
               THEN View("IndexError", prev, next)
             ELSE IF s1.current_step = "cutouts"
                     /\ "cutout_count" \notin DOMAIN s1.current_results
               THEN View("KeyError", prev, next)
             ELSE IF s1.current_step = "cutouts" /\ s1.current_results.cutout_count = 0
               THEN View("ZeroDivisionError", prev, next)
             ELSE View("step", prev, next)]

\* st.rerun() at the end of a button handler: the next run draws the page
Rerun(ss, file) ==
  LET r == ShowTypingInterface(ss, file)
  IN session_state' = r.session_state /\ view' = r.view

\* the Previous and Next buttons are on the page, drawn before line 249
NavigationDrawn == view.kind \notin {"closed", "no_files"}

Min(a, b) == IF a < b THEN a ELSE b
Max(a, b) == IF a > b THEN a ELSE b

\* lines 232-234 and 239-241
Navigate(ss, index) ==
  SetKey(SetKey(SetKey(ss, "current_file_index", index),
                "current_results", EmptyDict),
         "current_step", "basic_shape")

\* the user opens the page: the first script run
OpenPage ==
  /\ view.kind = "closed"
  /\ Rerun(session_state, typed_file)
  /\ UNCHANGED <<coreVars, last, typed_file, threads>>

ClickPrevious ==
  /\ NavigationDrawn
  /\ view.prev_enabled
  /\ Rerun(Navigate(session_state, Max(0, session_state.current_file_index - 1)), typed_file)
  /\ UNCHANGED <<coreVars, last, typed_file, threads>>

ClickNext ==
  /\ NavigationDrawn
  /\ view.next_enabled
  /\ Rerun(Navigate(session_state,
                    Min(Len(GetUntypedFiles(typed_file)) - 1,
                        session_state.current_file_index + 1)), typed_file)
  /\ UNCHANGED <<coreVars, last, typed_file, threads>>

\* lines 299-302
ChooseBasicShape ==
  /\ view.kind = "step"
  /\ session_state.current_step = "basic_shape"
  /\ \E i \in 1..Len(BASIC_SHAPES) :
       Rerun(SetKey(SetKey(session_state, "current_results",
                           SetKey(session_state.current_results, "basic_shape",
                                  BASIC_SHAPES[i])),
                    "current_step", "number_of_cutouts"), typed_file)
  /\ UNCHANGED <<coreVars, last, typed_file, threads>>

\* mutant: line 319 written count_opt['value'] >= 0
ChooseCutoutCountEntersForZero ==
  /\ view.kind = "step"
  /\ session_state.current_step = "number_of_cutouts"
  /\ \E i \in 1..Len(CUTOUT_COUNTS) :
       LET count_opt == CUTOUT_COUNTS[i]
           results == SetKey(SetKey(session_state.current_results,
                                    "number_of_cutouts", count_opt.label),
                             "cutout_count", count_opt.value)
           s1 == SetKey(session_state, "current_results", results)
       IN Rerun(IF count_opt.value = -1 THEN SetKey(s1, "current_step", "drill_holes")
                ELSE IF count_opt.value >= 0
                  THEN SetKey(SetKey(s1, "current_step", "cutouts"), "current_cutout", 0)
                ELSE SetKey(s1, "current_step", "drill_holes"), typed_file)
  /\ UNCHANGED <<coreVars, last, typed_file, threads>>

\* lines 314-324
ChooseCutoutCount ==
  /\ view.kind = "step"
  /\ session_state.current_step = "number_of_cutouts"
  /\ \E i \in 1..Len(CUTOUT_COUNTS) :
       LET count_opt == CUTOUT_COUNTS[i]
           results == SetKey(SetKey(session_state.current_results,
                                    "number_of_cutouts", count_opt.label),
                             "cutout_count", count_opt.value)
           s1 == SetKey(session_state, "current_results", results)
       IN Rerun(IF count_opt.value = -1 THEN SetKey(s1, "current_step", "drill_holes")
                ELSE IF count_opt.value > 0
                  THEN SetKey(SetKey(s1, "current_step", "cutouts"), "current_cutout", 0)
                ELSE SetKey(s1, "current_step", "drill_holes"), typed_file)
  /\ UNCHANGED <<coreVars, last, typed_file, threads>>

\* lines 345-351
ChooseCutout ==
  /\ view.kind = "step"
  /\ session_state.current_step = "cutouts"
  /\ \E i \in 1..Len(CUTOUT_SHAPES) :
       LET cutout_count   == session_state.current_results.cutout_count
           current_cutout == CurrentCutout(session_state)
           s1 == SetKey(session_state, "current_results",
                        SetKey(session_state.current_results,
                               "cutout_" \o ToString(current_cutout), CUTOUT_SHAPES[i]))
       IN Rerun(IF current_cutout + 1 < cutout_count
                THEN SetKey(s1, "current_cutout", current_cutout + 1)
                ELSE SetKey(s1, "current_step", "drill_holes"), typed_file)
  /\ UNCHANGED <<coreVars, last, typed_file, threads>>

\* lines 362-370 and 379-387: the answer is saved for files[current_file_index]
ChooseDrillHoles ==
  /\ view.kind = "step"
  /\ session_state.current_step = "drill_holes"
  /\ \E answer \in {"No", "Yes"} :
       LET current_file == GetUntypedFiles(typed_file)[session_state.current_file_index + 1]
           results == SetKey(session_state.current_results, "drill_holes", answer)
           written == SaveTypingResult(typed_file, current_file, results)
           s1 == DelKey(SetKey(SetKey(session_state, "current_results", EmptyDict),
                               "current_step", "basic_shape"),
                        "current_cutout")
       IN /\ typed_file' = written
          /\ Rerun(s1, written)
  /\ UNCHANGED <<coreVars, last, threads>>

\* the Delete button of the Typed Images tab (lines 632-637); the tab is drawn
\* only when show_typing_interface has returned
ClickDelete ==
  /\ view.kind \in {"no_files", "step"}
  /\ \E filename \in DOMAIN LoadTypingResults(typed_file) :
       LET written == WriteWithout(LoadTypingResults(typed_file), filename)
       IN /\ typed_file' = written
          /\ Rerun(session_state, written)
  /\ UNCHANGED <<coreVars, last, threads>>

\* lines 569-625 of show_results_interface: the record rebuilt from the values of
\* the select boxes of one typed file. A cutout box that has no stored answer
\* opens at the first cutout shape (line 608)
RECURSIVE EditedCutouts(_, _, _, _)
EditedCutouts(results, updated, i, cutout_count) ==
  IF i >= cutout_count THEN updated
  ELSE LET key            == "cutout_" \o ToString(i)
           current_cutout == Get(results, key, "")
           new_cutout     == IF \E n \in 1..Len(CUTOUT_SHAPES) : CUTOUT_SHAPES[n] = current_cutout
                             THEN current_cutout ELSE CUTOUT_SHAPES[1]
       IN EditedCutouts(results,
                        IF new_cutout # current_cutout THEN SetKey(updated, key, new_cutout)
                        ELSE updated,
                        i + 1, cutout_count)

EditedResults(results, new_shape, new_cutouts, new_drill) ==
  LET u1 == IF new_shape # Get(results, "basic_shape", "")
            THEN SetKey(results, "basic_shape", new_shape) ELSE results
      opt == CHOOSE o \in {CUTOUT_COUNTS[n] : n \in 1..Len(CUTOUT_COUNTS)} :
               o.label = new_cutouts
      u2 == IF new_cutouts # Get(results, "number_of_cutouts", "")
            THEN SetKey(SetKey(u1, "number_of_cutouts", new_cutouts),
                        "cutout_count", opt.value)
            ELSE u1
      u3 == EditedCutouts(results, u2, 0, Get(u2, "cutout_count", 0))
  IN IF new_drill # Get(results, "drill_holes", "")
     THEN SetKey(u3, "drill_holes", new_drill) ELSE u3

\* the user changes one select box of a typed file in the Typed Images tab: the
\* script runs again, draws the wizard, and line 629 saves the rebuilt record
EditResult ==
  /\ view.kind \in {"no_files", "step"}
  /\ \E filename \in DOMAIN LoadTypingResults(typed_file) :
       LET results == LoadTypingResults(typed_file)[filename]
       IN \E new_shape \in {BASIC_SHAPES[n] : n \in 1..Len(BASIC_SHAPES)},
             new_cutouts \in {CUTOUT_COUNTS[n].label : n \in 1..Len(CUTOUT_COUNTS)},
             new_drill \in {"No", "Yes"} :
            /\ Cardinality({f \in {"basic_shape", "number_of_cutouts", "drill_holes"} :
                              results[f] # [basic_shape |-> new_shape,
                                            number_of_cutouts |-> new_cutouts,
                                            drill_holes |-> new_drill][f]}) = 1
            /\ typed_file' = SaveTypingResult(typed_file, filename,
                                              EditedResults(results, new_shape,
                                                            new_cutouts, new_drill))
  /\ Rerun(session_state, typed_file)
  /\ UNCHANGED <<coreVars, last, threads>>

-----------------------------------------------------------------------------
(* app.py: script runs of concurrent sessions that write the results store *)

Sessions == {"s1", "s2"}

\* the files that the concurrent sessions save and delete
SessionFiles == {"1.svg", "2.svg"}

\* a complete typing of a file
SessionResults ==
  { [basic_shape |-> "Circle", number_of_cutouts |-> "No cutouts", cutout_count |-> 0,
     drill_holes |-> "No"],
    [basic_shape |-> "Rectangle", number_of_cutouts |-> "1 cutout", cutout_count |-> 1,
     cutout_0 |-> "Rectangle", drill_holes |-> "Yes"] }

ThreadIdle == [pc |-> "idle", filename |-> "", results |-> EmptyDict, data |-> NoResults]

\* save_typing_result, line 185: data = load_typing_results()
SaveLoad(s) ==
  /\ threads[s].pc = "idle"
  /\ \E filename \in SessionFiles, results \in SessionResults :
       threads' = [threads EXCEPT ![s] =
                     [pc |-> "save", filename |-> filename, results |-> results,
                      data |-> LoadTypingResults(typed_file)]]
  /\ UNCHANGED <<coreVars, last, typed_file, session_state, view>>

\* save_typing_result, lines 186-190: the file is rewritten from data
SaveWrite(s) ==
  /\ threads[s].pc = "save"
  /\ typed_file' = WriteTypingResult(threads[s].data, threads[s].filename, threads[s].results)
  /\ threads' = [threads EXCEPT ![s] = ThreadIdle]
  /\ UNCHANGED <<coreVars, last, session_state, view>>

\* show_results_interface, line 483, in the run of a click on Delete of an entry
DeleteLoad(s) ==
  /\ threads[s].pc = "idle"
  /\ \E filename \in SessionFiles \cap DOMAIN LoadTypingResults(typed_file) :
       threads' = [threads EXCEPT ![s] =
                     [pc |-> "delete", filename |-> filename, results |-> EmptyDict,
                      data |-> LoadTypingResults(typed_file)]]
  /\ UNCHANGED <<coreVars, last, typed_file, session_state, view>>

\* lines 633-636: del typed[filename]; the file is rewritten from typed
DeleteWrite(s) ==
  /\ threads[s].pc = "delete"
  /\ typed_file' = WriteWithout(threads[s].data, threads[s].filename)
  /\ threads' = [threads EXCEPT ![s] = ThreadIdle]
  /\ UNCHANGED <<coreVars, last, session_state, view>>

\* the typing application is not running
AppClosed ==
  /\ typed_file = TypedMissing
  /\ session_state = NoSession
  /\ view = NoView
  /\ threads = [s \in Sessions |-> ThreadIdle]

-----------------------------------------------------------------------------
(* Specifications *)

\* the analyzer and the category store: SVGAnalyzer() is constructed while
\* categories.json does not exist yet
Init ==
  /\ store = FileMissing
  /\ category_keywords = UpdateCategoriesFromJson(FileMissing).keys
  /\ typing_steps = StepsPlain
  /\ model = NoModel
  /\ last = [op |-> "idle"]
  /\ disk = NoFiles
  /\ saved = NoSave
  /\ AppClosed

Next == StoreWrite \/ UpdateCategories \/ AnalyzeCall \/ SuggestCall \/ TakeResult

Spec == Init /\ [][Next]_vars

\* the scoring functions on every category list: SVGAnalyzer() is constructed
\* from a categories.json that lists up to MaxCats of Names
InitScore ==
  /\ store \in {FileList(cs) : cs \in SeqsUpTo({CatEntry(n) : n \in Names}, MaxCats)}
  /\ category_keywords = UpdateCategoriesFromJson(store).keys
  /\ typing_steps = StepsPlain
  /\ model = NoModel
  /\ last = [op |-> "idle"]
  /\ disk = NoFiles
  /\ saved = NoSave
  /\ AppClosed

NextScore == AnalyzeCall \/ SuggestCall \/ TakeResult

SpecScore == InitScore /\ [][NextScore]_vars

\* the learned classifier: SVGTypingModel(typing_steps) for each configuration
InitModel ==
  /\ store = FileMissing
  /\ category_keywords = <<>>
  /\ typing_steps \in StepConfigs
  /\ model = NoModel
  /\ last = [op |-> "idle"]
  /\ disk = NoFiles
  /\ saved = NoSave
  /\ AppClosed

NextModel == TrainCall \/ PrepareDataCall \/ PredictCall \/ TakeResult

SpecModel == InitModel /\ [][NextModel]_vars

\* persistence of the learned classifier: train, save, load (in the same or in a
\* new process) and predict
NextPersist ==
  TrainCall \/ SaveModelCall \/ LoadModelCall \/ Construct \/ PredictCall \/ TakeResult

SpecPersist == InitModel /\ [][NextPersist]_vars

\* the contour classifier on every contour list
NextDetect == DetectCall \/ TakeResult

SpecDetect == Init /\ [][NextDetect]_vars

\* the typing wizard of one browser session, typed_images.json missing at first
NextWizard ==
  \/ OpenPage \/ ClickPrevious \/ ClickNext
  \/ ChooseBasicShape \/ ChooseCutoutCount \/ ChooseCutout \/ ChooseDrillHoles
  \/ ClickDelete

SpecWizard == Init /\ [][NextWizard]_vars

\* the wizard together with the editor of the Typed Images tab
NextEditor == NextWizard \/ EditResult

SpecEditor == Init /\ [][NextEditor]_vars

\* two sessions whose script runs save and delete entries of the results store
NextSessions ==
  \E s \in Sessions : SaveLoad(s) \/ SaveWrite(s) \/ DeleteLoad(s) \/ DeleteWrite(s)

SpecSessions == Init /\ [][NextSessions]_vars

-----------------------------------------------------------------------------
(* Properties of analyze_svg and suggest_category *)

InputFails(inp) == inp.raster = "raise" \/ inp.detect = "raise"

\* C1: analyze_svg never lets an exception escape: when rasterization or contour
\* analysis raises it returns {}, and suggest_category on that input returns (None, 0).
C1_NoExceptionEscapes ==
  /\ last.op = "analyze" =>
       /\ ~last.raised
       /\ InputFails(last.input) => last.scores = <<>>
  /\ last.op = "suggest" =>
       /\ ~last.raised
       /\ InputFails(last.input) =>
            last.category = NoCategory /\ last.confidence = <<0, 1>>

C1_Witness ==
  /\ last.op = "suggest"
  /\ last.input.detect = "raise"
  /\ Len(category_keywords) > 0
  /\ last.category = NoCategory

\* C2: with no category configured (categories.json missing, unparseable or an
\* empty list) update_categories_from_json leaves no category and does not raise,
\* and analyze_svg returns {} for every input, shapes detected or not, without raising.
C2_EmptyCategorySet ==
  /\ (last.op = "update" /\ (store.state \in {"missing", "corrupt"} \/ store.cats = <<>>)) =>
       ~last.raised /\ category_keywords = <<>>
  /\ (last.op = "analyze" /\ category_keywords = <<>>) =>
       ~last.raised /\ last.scores = <<>>

C2_Witness ==
  /\ last.op = "analyze"
  /\ store.state = "corrupt"
  /\ category_keywords = <<>>
  /\ ~InputFails(last.input)
  /\ TotalShapes(last.input.shapes) > 0

\* the score the map holds for key k
ScoreOf(scores, k) == scores[CHOOSE i \in 1..Len(scores) : scores[i][1] = k][2]

\* C3: when the score map of analyze_svg is not empty, suggest_category returns a
\* category of maximal score with that score as confidence, and of the categories
\* sharing the maximum the first in the insertion order of the categories.
C3_SuggestFirstMaximum ==
  LET scores == AnalyzeSvg(last.input, category_keywords).scores
  IN (last.op = "suggest" /\ Len(scores) > 0) =>
       \E i \in 1..Len(category_keywords) :
         /\ last.category = category_keywords[i]
         /\ last.category \in DictKeys(scores)
         /\ last.confidence = ScoreOf(scores, last.category)
         /\ \A j \in 1..Len(category_keywords) :
              ~RatLess(last.confidence, ScoreOf(scores, category_keywords[j]))
         /\ \A j \in 1..(i - 1) :
              RatLess(ScoreOf(scores, category_keywords[j]), last.confidence)

C3_Witness ==
  /\ last.op = "suggest"
  /\ Len(category_keywords) = 2
  /\ LET scores == AnalyzeSvg(last.input, category_keywords).scores
     IN /\ Len(scores) = 2
        /\ scores[1][2] = scores[2][2]
        /\ RatLess(<<0, 1>>, scores[1][2])
        /\ last.category = category_keywords[1]

\* the names categories.json lists, lower-cased
StoreNames == {Lower(store.cats[i].name) : i \in 1..Len(store.cats)}

\* C4: analyze_svg scores exactly the categories that categories.json holds at
\* the time of the call (the category set is re-read for each analysis call).
C4_RereadBeforeEachCall ==
  (/\ last.op = "analyze"
   /\ ~InputFails(last.input)
   /\ store.state = "list"
   /\ \A i \in 1..Len(store.cats) : store.cats[i].has_name)
  => DictKeys(last.scores) = StoreNames

\* C5: a category scored by a pure-ratio rule (round/circle against circles, else
\* square against rectangles, else triangle against triangles), with total > 0
\* shapes of which m match: 1.0 if m = total, 0.9 if m/total > 1/2 and m < total,
\* else 0.7 * m/total; one single circle gives 1.0 to every round/circle name.
C5_PureRatioScore ==
  (last.op = "analyze" /\ ~InputFails(last.input) /\ TotalShapes(last.input.shapes) > 0) =>
    \A i \in 1..Len(last.scores) :
      LET name   == last.scores[i][1]
          score  == last.scores[i][2]
          sh     == last.input.shapes
          total  == TotalShapes(sh)
          round  == Contains(TokRound, name) \/ Contains(TokCircle, name)
          square == ~round /\ Contains(TokSquare, name)
          tri    == ~round /\ ~square /\ Contains(TokTriangle, name)
          m      == IF round THEN sh.circles ELSE IF square THEN sh.rectangles ELSE sh.triangles
      IN /\ (round \/ square \/ tri) =>
              /\ m = total => score = <<1, 1>>
              /\ (m < total /\ 2 * m > total) => score = <<9, 10>>
              /\ 2 * m <= total => score[1] * 10 * total = 7 * m * score[2]
         /\ (round /\ sh.circles = 1 /\ total = 1) => score = <<1, 1>>

C5_Witness ==
  /\ last.op = "analyze"
  /\ ~InputFails(last.input)
  /\ last.input.shapes.rectangles = 1
  /\ TotalShapes(last.input.shapes) = 2
  /\ \E i \in 1..Len(last.scores) :
       /\ last.scores[i][1] = Lower(NameSquare)
       /\ last.scores[i][2] = <<7, 20>>

\* C6: when no shape is detected and nothing raises, analyze_svg returns one entry
\* per configured category, every score 0.
C6_NoShapesAllZero ==
  (last.op = "analyze" /\ ~InputFails(last.input) /\ TotalShapes(last.input.shapes) = 0) =>
    /\ Len(last.scores) = Len(category_keywords)
    /\ DictKeys(last.scores) = {category_keywords[i] : i \in 1..Len(category_keywords)}
    /\ \A i \in 1..Len(last.scores) : last.scores[i][2] = <<0, 1>>

C6_Witness ==
  /\ last.op = "analyze"
  /\ ~InputFails(last.input)
  /\ TotalShapes(last.input.shapes) = 0
  /\ Len(last.scores) = 2
  /\ Lower(NameText) \in DictKeys(last.scores)

-----------------------------------------------------------------------------
(* Properties of prepare_data and predict *)

\* the step at position s of the step order, and its options in their order
StepAt(s) ==
  CHOOSE st \in {typing_steps[i] : i \in 1..Len(typing_steps)} :
    Cardinality({i \in 1..Len(typing_steps) : typing_steps[i].order < st.order}) = s - 1

OptionAt(step, n) ==
  (CHOOSE o \in {step.options[i] : i \in 1..Len(step.options)} :
     Cardinality({i \in 1..Len(step.options) : step.options[i].order < o.order}) = n).value

IsOption(step, v) == \E i \in 1..Len(step.options) : step.options[i].value = v

\* the key of results that row j reads for a step
RowKey(step, j) ==
  IF step.id = "cutout" THEN (IF j = 1 THEN "cutout" ELSE "cutout_" \o ToString(j))
  ELSE IF step.id = "additional_cutout" THEN "additional_cutout_" \o ToString(j)
  ELSE step.id

\* the number k with additional_cutout_1 .. additional_cutout_k = "Ja" and
\* additional_cutout_(k+1) absent or not "Ja"
RECURSIVE ConfirmedFlags(_, _)
ConfirmedFlags(results, k) ==
  IF "additional_cutout_" \o ToString(k + 1) \in DOMAIN results
     /\ results["additional_cutout_" \o ToString(k + 1)] = "Ja"
  THEN ConfirmedFlags(results, k + 1)
  ELSE k

\* a batch of one readable example
OneReadable == last.op = "prepare_data" /\ Len(last.files) = 1 /\ last.files[1].readable

\* exactly k+1 rows, all of the example's image; the cutout and flag labels of
\* row j are those of the answers under cutout / cutout_j and additional_cutout_j
ExpandsToRows(k) ==
  LET results == last.files[1].results
  IN /\ Len(last.X) = k + 1
     /\ \A j \in 1..Len(last.X) : last.X[j] = last.files[1].filename
     /\ \A s \in 1..Len(typing_steps) :
          /\ Len(last.Y[s]) = k + 1
          /\ \A j \in 1..(k + 1) :
               (StepAt(s).id \in {"cutout", "additional_cutout"}
                /\ RowKey(StepAt(s), j) \in DOMAIN results)
               => OptionAt(StepAt(s), last.Y[s][j]) = results[RowKey(StepAt(s), j)]

\* C7 as stated: one readable example with k leading "Ja" flags gives exactly k+1
\* rows of the same image, labelled from cutout / cutout_j and additional_cutout_j.
C7_RowsForEveryExample ==
  OneReadable => ExpandsToRows(ConfirmedFlags(last.files[1].results, 0))

\* every answer that rows 1 .. k+1 read is an option of its step
AnswersAreOptions(k) ==
  LET results == last.files[1].results
  IN \A s \in 1..Len(typing_steps) : \A j \in 1..(k + 1) :
       RowKey(StepAt(s), j) \in DOMAIN results
       => IsOption(StepAt(s), results[RowKey(StepAt(s), j)])

\* C7 amended: one readable example whose answers read by rows 1 .. k+1 are all
\* options of their steps, with k leading "Ja" flags, gives exactly k+1 rows of the
\* same image, labelled from cutout / cutout_j and additional_cutout_j.
C7_RowsForValidExample ==
  (OneReadable /\ AnswersAreOptions(ConfirmedFlags(last.files[1].results, 0)))
  => ExpandsToRows(ConfirmedFlags(last.files[1].results, 0))

\* flags (yes, yes, no) with three different sub-item answers: 3 rows
C7_Witness ==
  /\ OneReadable
  /\ LET results == last.files[1].results
     IN /\ DOMAIN results = {"cutout_2", "additional_cutout_1", "additional_cutout_2",
                             "additional_cutout_3"}
        /\ results["additional_cutout_1"] = "Ja"
        /\ results["additional_cutout_2"] = "Ja"
        /\ results["additional_cutout_3"] = "Nee"
        /\ results["cutout_2"] = "Circle"
  /\ Len(last.X) = 3

\* the label of value v among the options of a step in their order
LabelOf(step, v) ==
  Cardinality({i \in 1..Len(step.options) :
                 step.options[i].order <
                   (CHOOSE o \in {step.options[n] : n \in 1..Len(step.options)} : o.value = v).order})

\* C8 as stated: every label recorded for a step that has no answer (the cutout
\* slot and the flag step included) is the index of the step's first configured option.
C8_DefaultIsFirstOption ==
  OneReadable =>
    \A s \in 1..Len(typing_steps) : \A j \in 1..Len(last.Y[s]) :
      RowKey(StepAt(s), j) \notin DOMAIN last.files[1].results
      => last.Y[s][j] = LabelOf(StepAt(s), StepAt(s).options[1].value)

\* C8 amended: every label recorded for an unanswered step other than the flag step
\* (the cutout slot included) is the index of the step's first configured option;
\* every label recorded for an unanswered flag step is the index of "Nee".
C8_DefaultFill ==
  OneReadable =>
    \A s \in 1..Len(typing_steps) : \A j \in 1..Len(last.Y[s]) :
      RowKey(StepAt(s), j) \notin DOMAIN last.files[1].results
      => last.Y[s][j] = LabelOf(StepAt(s),
                                IF StepAt(s).id = "additional_cutout" THEN "Nee"
                                ELSE StepAt(s).options[1].value)

\* no answer at all, in the configuration whose first listed options are not the
\* options of lowest order
C8_Witness ==
  /\ OneReadable
  /\ typing_steps = StepsShuffled
  /\ DOMAIN last.files[1].results = {"additional_cutout_1"}
  /\ last.files[1].results["additional_cutout_1"] = "Ja"
  /\ Len(last.X) = 2
  /\ last.Y = <<(<<1, 1>>), (<<1, 1>>), (<<0, 1>>)>>

\* C9: whenever predict selects "Ja" for the flag step of round n, the mapping it
\* returns also holds the predictions of round n+1 (cutout_(n+1), additional_cutout_(n+1)).
C9_PredictExpands ==
  (last.op = "predict" /\ ~last.raised) =>
    \A n \in 1..MaxIdx :
      ("additional_cutout_" \o ToString(n) \in DOMAIN last.results
       /\ last.results["additional_cutout_" \o ToString(n)] = "Ja")
      => /\ "cutout_" \o ToString(n + 1) \in DOMAIN last.results
         /\ "additional_cutout_" \o ToString(n + 1) \in DOMAIN last.results

\* the zero-based place of the first largest class weight of head s
BestClass(s) ==
  LET probs == last.input.predictions[s]
  IN (CHOOSE i \in 1..Len(probs) :
        /\ \A j \in 1..Len(probs) : probs[j] <= probs[i]
        /\ \A j \in 1..(i - 1) : probs[j] # probs[i]) - 1

\* the keys under which predict may file the selection of a step
KeysOfStep(step) ==
  IF step.id = "cutout" THEN {"cutout"} \cup {"cutout_" \o ToString(n) : n \in 2..(MaxIdx + 1)}
  ELSE IF step.id = "additional_cutout"
       THEN {"additional_cutout_" \o ToString(n) : n \in 1..(MaxIdx + 1)}
  ELSE {step.id}

\* C10: with a model loaded and no processing error, predict returns one entry per
\* configured step, whose value is the option, in the step's options sorted by
\* order, at the index of the highest probability of the head at the step's
\* position in the step order.
C10_OneOptionPerStep ==
  (last.op = "predict" /\ model.loaded /\ last.input.renders
   /\ Len(last.input.predictions) = Len(typing_steps)
   /\ \A s \in 1..Len(typing_steps) :
        Len(last.input.predictions[s]) = Len(StepAt(s).options))
  => /\ ~last.raised
     /\ Cardinality(DOMAIN last.results) = Len(typing_steps)
     /\ \A s \in 1..Len(typing_steps) :
          \E k \in KeysOfStep(StepAt(s)) :
            /\ k \in DOMAIN last.results
            /\ last.results[k] = OptionAt(StepAt(s), BestClass(s))

C10_Witness ==
  /\ last.op = "predict"
  /\ model.loaded
  /\ typing_steps = StepsShuffled
  /\ last.input.renders
  /\ last.input.predictions = <<(<<1, 1, 2>>), (<<2, 2>>), (<<0, 1>>)>>
  /\ last.results = [basic_shape |-> "Text", cutout |-> "Rectangle", additional_cutout_1 |-> "Nee"]

\* C11: predict called while self.model is None raises to the caller; it returns
\* no result mapping, whether or not the input would render.
C11_NoModelRaises ==
  (last.op = "predict" /\ ~model.loaded) => last.raised

C11_Witness ==
  /\ last.op = "predict"
  /\ ~model.loaded
  /\ last.input.renders
  /\ last.raised

\* an item fails when its file cannot be read or rendered, or when an answer read
\* by one of its rows is not an option of its step
ItemFails(e) ==
  \/ ~e.readable
  \/ \E s \in 1..Len(typing_steps) : \E j \in 1..(ConfirmedFlags(e.results, 0) + 1) :
        /\ RowKey(StepAt(s), j) \in DOMAIN e.results
        /\ ~IsOption(StepAt(s), e.results[RowKey(StepAt(s), j)])

\* the rows an item gives when it is prepared alone
RowsAlone(e) == PrepareData(<<e>>, typing_steps)

\* the image rows (label rows of step position s when s > 0) of the items of
\* files that do not fail, in batch order
RECURSIVE RowsOfOthers(_, _, _)
RowsOfOthers(files, i, s) ==
  IF i > Len(files) THEN <<>>
  ELSE (IF ItemFails(files[i]) THEN <<>>
        ELSE IF s = 0 THEN RowsAlone(files[i]).X ELSE RowsAlone(files[i]).Y[s])
       \o RowsOfOthers(files, i + 1, s)

RECURSIVE FailedNames(_, _)
FailedNames(files, i) ==
  IF i > Len(files) THEN <<>>
  ELSE (IF ItemFails(files[i]) THEN <<files[i].filename>> ELSE <<>>)
       \o FailedNames(files, i + 1)

\* C12: prepare_data reports exactly the items that fail (unreadable file, or an
\* answer that is no option of its step) and skips them, and the rows it returns
\* are the rows of all the other items of the batch, in batch order.
C12_FailedItemsSkipped ==
  last.op = "prepare_data" =>
    /\ last.reported = FailedNames(last.files, 1)
    /\ last.X = RowsOfOthers(last.files, 1, 0)
    /\ \A s \in 1..Len(typing_steps) : last.Y[s] = RowsOfOthers(last.files, 1, s)

\* C15: after prepare_data returns, every per-step label list has as many entries
\* as X has image rows.
C15_RowsAligned ==
  last.op = "prepare_data" => \A s \in 1..Len(typing_steps) : Len(last.Y[s]) = Len(last.X)

\* the rows of X that carry the image of the file named filename
RowsOf(filename) == Cardinality({j \in 1..Len(last.X) : last.X[j] = filename})

\* the additional_cutout_* entries of a results mapping
FlagEntries(results) == (DOMAIN results) \cap FlagKeys

\* C24: prepare_data returns for every batch, and the rows it produces for one
\* example number at most one more than the additional_cutout_* entries of its
\* results, since every further row needs another entry additional_cutout_k = "Ja".
C24_RowLoopBounded ==
  last.op = "prepare_data" =>
    \A i \in 1..Len(last.files) :
      LET e == last.files[i]
      IN /\ RowsOf(e.filename) <= 1 + Cardinality(FlagEntries(e.results))
         /\ RowsOf(e.filename)
              <= 1 + Cardinality({k \in FlagEntries(e.results) : e.results[k] = "Ja"})
         /\ RowsOf(e.filename) <= 1 + ConfirmedFlags(e.results, 0)
         /\ e.readable => RowsOf(e.filename) >= 1

\* an example whose three flags all say "Ja" gives four rows, the bound itself;
\* one with the flags 1 and 3 but not 2 stops after two rows (a further state)
C24_Witness ==
  /\ last.op = "prepare_data"
  /\ Len(last.files) = 1
  /\ last.files[1].readable
  /\ FlagEntries(last.files[1].results)
       = {"additional_cutout_1", "additional_cutout_2", "additional_cutout_3"}
  /\ \A k \in FlagEntries(last.files[1].results) : last.files[1].results[k] = "Ja"
  /\ Len(last.X) = 4

\* C13: when load_model(path) follows save_model(path) of a trained model, the load
\* succeeds and the loaded model predicts as the saved model does on every input.
C13_SaveLoadRoundTrip ==
  (/\ last.op = "load"
   /\ saved.called
   /\ saved.model.loaded
   /\ saved.path = last.path)
  => /\ ~last.raised
     /\ \A inp \in PredictInputs(saved.model) :
          Predict(model, typing_steps, inp) = Predict(saved.model, typing_steps, inp)

-----------------------------------------------------------------------------
(* Properties of the scoring rules *)

\* the rule that scores a (lower-case) name: the first whose token it contains
RuleOf(name) ==
  IF Contains(TokRound, name) \/ Contains(TokCircle, name) THEN "round"
  ELSE IF Contains(TokSquare, name) THEN "square"
  ELSE IF Contains(TokTriangle, name) THEN "triangle"
  ELSE IF Contains(TokComplex, name) \/ Contains(TokShape, name) THEN "complex"
  ELSE IF Contains(TokText, name) THEN "text"
  ELSE IF Contains(TokHeart, name) THEN "heart"
  ELSE IF Contains(TokArrow, name) THEN "arrow"
  ELSE "none"

\* the number of buckets that are not empty
NonEmptyBuckets(sh) ==
  Cardinality({b \in {"circles", "rectangles", "triangles", "other"} : sh[b] > 0})

\* score = (min(1, u/3) + min(1, t/3)) / 2, for score = <<n, d>>
IsVarietyAverage(score, u, t) == score[1] * 6 = score[2] * (Min(3, u) + Min(3, t))

\* an analysis that did not fail, of an image with at least one shape
ScoredShapes ==
  last.op = "analyze" /\ ~InputFails(last.input) /\ TotalShapes(last.input.shapes) > 0

\* C19 as stated: for a category scored by the complex/shape rule, whenever at
\* least one shape is detected, the score is the average of min(1, non-empty
\* buckets / 3) and min(1, total shapes / 3).
C19_VarietyAverage ==
  ScoredShapes =>
    \A i \in 1..Len(last.scores) :
      RuleOf(last.scores[i][1]) = "complex"
      => IsVarietyAverage(last.scores[i][2], NonEmptyBuckets(last.input.shapes),
                          TotalShapes(last.input.shapes))

\* C19 amended: for a category scored by the complex/shape rule, when the shapes
\* detected fall in at least two buckets, the score is the average of min(1,
\* non-empty buckets / 3) and min(1, total shapes / 3); when they all fall in one
\* bucket the score is 0.
C19_VarietyAverageOfMixedShapes ==
  ScoredShapes =>
    \A i \in 1..Len(last.scores) :
      RuleOf(last.scores[i][1]) = "complex"
      => IF NonEmptyBuckets(last.input.shapes) >= 2
         THEN IsVarietyAverage(last.scores[i][2], NonEmptyBuckets(last.input.shapes),
                               TotalShapes(last.input.shapes))
         ELSE last.scores[i][2] = <<0, 1>>

\* "SHAPES" with a circle and a rectangle scores (2/3 + 2/3) / 2
C19_Witness ==
  /\ ScoredShapes
  /\ last.input.shapes = [circles |-> 1, rectangles |-> 1, triangles |-> 0, other |-> 0]
  /\ \E i \in 1..Len(last.scores) :
       last.scores[i] = <<Lower(NameShapes), <<2, 3>> >>

\* C20: a category scored by the heart rule scores 0.6 exactly when the "other"
\* bucket is not empty and at most 2 shapes are detected, and 0 otherwise; one
\* scored by the arrow rule scores 0.6 exactly when the "other" bucket is not empty
\* and at most 3 shapes are detected, and 0 otherwise.
C20_HeartArrowFlatScore ==
  (last.op = "analyze" /\ ~InputFails(last.input)) =>
    \A i \in 1..Len(last.scores) :
      LET rule  == RuleOf(last.scores[i][1])
          score == last.scores[i][2]
          sh    == last.input.shapes
      IN /\ rule = "heart" =>
              /\ score \in {<<0, 1>>, <<3, 5>>}
              /\ score = <<3, 5>> <=> (sh.other > 0 /\ TotalShapes(sh) <= 2)
         /\ rule = "arrow" =>
              /\ score \in {<<0, 1>>, <<3, 5>>}
              /\ score = <<3, 5>> <=> (sh.other > 0 /\ TotalShapes(sh) <= 3)

\* three shapes, one of them in "other": heart 0, arrow 0.6
C20_Witness ==
  /\ last.op = "analyze"
  /\ ~InputFails(last.input)
  /\ last.input.shapes = [circles |-> 2, rectangles |-> 0, triangles |-> 0, other |-> 1]
  /\ last.scores = << <<NameHeart, <<0, 1>> >>, <<NameArrow, <<3, 5>> >> >>

\* what one rule alone gives for the shapes of an image with at least one shape
RuleScore(rule, sh) ==
  CASE rule = "round"    -> RatioScore(sh.circles, TotalShapes(sh))
    [] rule = "square"   -> RatioScore(sh.rectangles, TotalShapes(sh))
    [] rule = "triangle" -> RatioScore(sh.triangles, TotalShapes(sh))
    [] rule = "complex"  -> VarietyScore(sh)
    [] rule = "text"     -> Rat(1, 10)
    [] rule = "heart"    -> IF sh.other > 0 /\ TotalShapes(sh) <= 2 THEN Rat(6, 10) ELSE RatZero
    [] rule = "arrow"    -> IF sh.other > 0 /\ TotalShapes(sh) <= 3 THEN Rat(6, 10) ELSE RatZero
    [] OTHER             -> RatZero

\* C21: every category is scored by one rule only, the first in the order
\* round/circle, square, triangle, complex/shape, text, heart, arrow whose token
\* occurs in the lower-cased name: a name holding tokens of several rules (such as
\* "round square") gets the score of the earliest rule, and a name holding no
\* token scores 0 for every image.
C21_FirstRuleOnly ==
  (last.op = "analyze" /\ ~InputFails(last.input)) =>
    \A i \in 1..Len(last.scores) :
      LET name == last.scores[i][1]
          sh   == last.input.shapes
      IN /\ TotalShapes(sh) > 0 => last.scores[i][2] = RuleScore(RuleOf(name), sh)
         /\ RuleOf(name) = "none" => last.scores[i][2] = RatZero
         /\ (TotalShapes(sh) > 0 /\ Contains(TokRound, name) /\ Contains(TokSquare, name))
              => last.scores[i][2] = RatioScore(sh.circles, TotalShapes(sh))

\* "round square" and "misc" scored for an image of one rectangle: the round rule
\* gives 0 where the square rule would give 1, and the name without token gives 0
C21_Witness ==
  /\ last.op = "analyze"
  /\ ~InputFails(last.input)
  /\ last.input.shapes = [circles |-> 0, rectangles |-> 1, triangles |-> 0, other |-> 0]
  /\ last.scores = << <<NameRoundSquare, <<0, 1>> >>, <<NameMisc, <<0, 1>> >> >>

-----------------------------------------------------------------------------
(* Properties of _detect_shapes *)

\* the decision table, for a contour with the effective axis ratio (0 when the
\* contour has fewer than 5 points)
TableBucket(c) ==
  LET axisRatio == IF c.points >= 5 THEN c.fitted_axis_ratio ELSE 0
      circle    == (c.circularity > 75 /\ c.solidity > 85) \/ (axisRatio > 85 /\ c.solidity > 90)
      triangle  == c.vertices = 3 \/ (c.vertices = 4 /\ c.aspect_ratio < 60)
      rectangle == \/ (c.vertices = 4 /\ c.aspect_ratio > 70)
                   \/ (c.vertices <= 6 /\ c.aspect_ratio > 80)
  IN CHOOSE b \in {"circles", "triangles", "rectangles", "other"} :
       /\ b = "circles" <=> circle
       /\ b = "triangles" <=> (~circle /\ triangle)
       /\ b = "rectangles" <=> (~circle /\ ~triangle /\ rectangle)
       /\ b = "other" <=> (~circle /\ ~triangle /\ ~rectangle)

\* the contours of the last call that are counted in bucket b by the table: area
\* above 0.1% of the image area, perimeter not zero
Counted(b) ==
  {i \in 1..Len(last.contours) :
     /\ last.contours[i].area * 1000 > 800 * 800
     /\ last.contours[i].perimeter # 0
     /\ TableBucket(last.contours[i]) = b}

\* C18: _detect_shapes counts every contour whose area is above 0.1% of the image
\* area and whose perimeter is not zero in exactly the bucket of the decision
\* table (circle, else triangle, else rectangle, else other), and counts the
\* other contours in no bucket.
C18_DecisionTable ==
  last.op = "detect" =>
    /\ last.shapes.circles = Cardinality(Counted("circles"))
    /\ last.shapes.triangles = Cardinality(Counted("triangles"))
    /\ last.shapes.rectangles = Cardinality(Counted("rectangles"))
    /\ last.shapes.other = Cardinality(Counted("other"))

\* a disc, then a contour of 3 vertices whose bounding rectangle is nearly square
C18_Witness ==
  /\ last.op = "detect"
  /\ Len(last.contours) = 2
  /\ last.contours[1].circularity = 99
  /\ last.contours[2] = Contour(641, 100, 76, 85, 5, 86, 3, 81)
  /\ last.shapes = [circles |-> 1, rectangles |-> 0, triangles |-> 1, other |-> 0]

-----------------------------------------------------------------------------
(* Properties of the category names *)

IsLowerCase(s) == \A i \in 1..Len(s) : \A u \in 1..Len(UpperChars) : s[i] # UpperChars[u]

\* a and b are the same letter, upper or lower case
SameLetter(a, b) ==
  \/ a = b
  \/ \E u \in 1..Len(UpperChars) : {a, b} = {UpperChars[u], LowerChars[u]}

\* a and b differ at most in the case of their letters
SameName(a, b) == Len(a) = Len(b) /\ \A i \in 1..Len(a) : SameLetter(a[i], b[i])

\* s with every lower-case letter in upper case and every upper-case letter in
\* lower case
SwapCase(s) ==
  [i \in 1..Len(s) |->
     IF \E u \in 1..Len(UpperChars) : UpperChars[u] = s[i]
     THEN LowerChars[CHOOSE u \in 1..Len(UpperChars) : UpperChars[u] = s[i]]
     ELSE IF \E u \in 1..Len(LowerChars) : LowerChars[u] = s[i]
     THEN UpperChars[CHOOSE u \in 1..Len(LowerChars) : LowerChars[u] = s[i]]
     ELSE s[i]]

\* s with every letter in upper case
UpperCase(s) ==
  [i \in 1..Len(s) |->
     IF \E u \in 1..Len(LowerChars) : LowerChars[u] = s[i]
     THEN UpperChars[CHOOSE u \in 1..Len(LowerChars) : LowerChars[u] = s[i]]
     ELSE s[i]]

\* the score map of an analyzer constructed from the category list cats
ScoresFor(cats, inp) == AnalyzeSvg(inp, UpdateCategoriesFromJson(FileList(cats)).keys).scores

\* C14: when analyze_svg does not fail, every key of its map is lower case, the
\* keys are the configured category names up to case, and the map is the same when
\* the names are configured in another casing (all upper case, or every letter in
\* the other case).
C14_CaseInsensitiveKeys ==
  (last.op = "analyze" /\ ~InputFails(last.input)) =>
    /\ \A k \in DictKeys(last.scores) : IsLowerCase(k)
    /\ \A i \in 1..Len(store.cats) :
         \E k \in DictKeys(last.scores) : SameName(k, store.cats[i].name)
    /\ \A k \in DictKeys(last.scores) :
         \E i \in 1..Len(store.cats) : SameName(k, store.cats[i].name)
    /\ ScoresFor([i \in 1..Len(store.cats) |-> CatEntry(UpperCase(store.cats[i].name))],
                 last.input) = last.scores
    /\ ScoresFor([i \in 1..Len(store.cats) |-> CatEntry(SwapCase(store.cats[i].name))],
                 last.input) = last.scores

\* "SHAPES" and "Round" configured, two circles and a rectangle detected
C14_Witness ==
  /\ last.op = "analyze"
  /\ ~InputFails(last.input)
  /\ store.cats = <<CatEntry(NameShapes), CatEntry(NameRound)>>
  /\ last.input.shapes = [circles |-> 2, rectangles |-> 1, triangles |-> 0, other |-> 0]
  /\ last.scores = << <<Lower(NameShapes), <<5, 6>> >>, <<Lower(NameRound), <<9, 10>> >> >>

-----------------------------------------------------------------------------
(* Properties of the typing application *)

\* C16: whenever the list of untyped files is not empty, current_file_index is an
\* index of that list (0 .. len(files)-1), also after the typing of the last file
\* of the list was saved while other files remain untyped.
C16_IndexInRange ==
  ("current_file_index" \in DOMAIN session_state /\ Len(GetUntypedFiles(typed_file)) > 0)
  => session_state.current_file_index \in 0..(Len(GetUntypedFiles(typed_file)) - 1)

\* C17: no write to typed_images.json loses an entry: every entry that the file
\* holds before a step is still held after it, unless the step is the write of a
\* Delete of that same entry. (So the saves of two sessions for different file
\* names leave both entries, however their steps interleave.)
C17_WritesSerialized ==
  [][\A f \in DOMAIN LoadTypingResults(typed_file) :
       \/ f \in DOMAIN LoadTypingResults(typed_file')
       \/ \E s \in Sessions :
            /\ threads[s].pc = "delete"
            /\ threads[s].filename = f
            /\ threads'[s].pc = "idle"]_vars

\* the wizard of the session is at the step `step`
AtStep(step) ==
  "current_step" \in DOMAIN session_state /\ session_state.current_step = step

\* C22: whenever the wizard is at the cutouts step, current_results holds a
\* cutout_count of at least 1 and 0 <= current_cutout < cutout_count; so neither
\* the lookup of cutout_count nor the division by it fails when the step is drawn,
\* and the step is not entered for "No cutouts" or "Multiple/complex cutouts".
C22_CutoutsStepBounded ==
  AtStep("cutouts") =>
    /\ "cutout_count" \in DOMAIN session_state.current_results
    /\ session_state.current_results.cutout_count >= 1
    /\ 0 <= CurrentCutout(session_state)
    /\ CurrentCutout(session_state) < session_state.current_results.cutout_count
    /\ view.kind \notin {"KeyError", "ZeroDivisionError"}
    /\ session_state.current_results.number_of_cutouts
         \notin {"No cutouts", "Multiple/complex cutouts"}

\* the last of three cutouts is asked for, two being answered
C22_Witness ==
  /\ AtStep("cutouts")
  /\ view.kind = "step"
  /\ session_state.current_results.cutout_count = 3
  /\ CurrentCutout(session_state) = 2
  /\ {"cutout_0", "cutout_1"} \subseteq DOMAIN session_state.current_results

\* files[current_file_index], the file the wizard shows and saves for
CurrentFile(ss, file) ==
  LET files == GetUntypedFiles(file)
  IN IF "current_file_index" \in DOMAIN ss /\ ss.current_file_index < Len(files)
     THEN files[ss.current_file_index + 1] ELSE "<none>"

\* the keys cutout_0 .. cutout_(n-1)
CutoutAnswerKeys(n) == {"cutout_" \o ToString(j) : j \in 0..(n - 1)}

\* a saved record holds the four answers and, of the cutout keys, exactly those of
\* its cutout_count
RecordComplete(rec) ==
  /\ {"basic_shape", "number_of_cutouts", "cutout_count", "drill_holes"} \subseteq DOMAIN rec
  /\ (DOMAIN rec) \ {"basic_shape", "number_of_cutouts", "cutout_count", "drill_holes",
                      "typed_date"}
       = CutoutAnswerKeys(rec.cutout_count)

\* a step that writes a record into typed_images.json starts at the drill_holes
\* step, writes a complete record and ends at basic_shape with no answers
SavedFromDrillHoles ==
  \A f \in DOMAIN LoadTypingResults(typed_file') :
    (f \notin DOMAIN LoadTypingResults(typed_file)
     \/ LoadTypingResults(typed_file')[f] # LoadTypingResults(typed_file)[f])
    => /\ AtStep("drill_holes")
       /\ RecordComplete(LoadTypingResults(typed_file')[f])
       /\ session_state'.current_step = "basic_shape"
       /\ session_state'.current_results = EmptyDict

\* the answers collected since the last reset stay with the file they were given
\* for: a step that leaves answers in current_results leaves the current file
AnswersStayWithFile ==
  ("current_results" \in DOMAIN session_state'
   /\ session_state'.current_results # EmptyDict)
  => CurrentFile(session_state', typed_file') = CurrentFile(session_state, typed_file)

\* C23: a typing result is saved only from the drill_holes step, which is reached
\* only after basic_shape and number_of_cutouts were answered for the current file
\* since the last reset (save, Previous or Next); so every saved record holds
\* basic_shape, number_of_cutouts, cutout_count and drill_holes and, when
\* cutout_count = n > 0, exactly the cutout keys cutout_0 .. cutout_(n-1); after
\* the save the wizard is at basic_shape with empty current_results.
C23_SavedAfterAnswersForFile ==
  [][SavedFromDrillHoles /\ AnswersStayWithFile]_vars

=============================================================================
